---- MODULE Spec2Model ----
(***************************************************************************)
(* Model of the swiftplay-analysis crawler (src/data/IRON_IV).             *)
(*                                                                         *)
(*   Spec     LeagueBFS (main.py) over DataManager (data_manager.py):      *)
(*            one process at a time, started fresh or with --resume, that  *)
(*            may fail in an API call, receive KeyboardInterrupt, or be    *)
(*            killed, and may then be started again.                       *)
(*   SpecRL   RateLimit.wait_if_needed (api_client.py) called at arbitrary *)
(*            times.                                                       *)
(*   SpecReq  RiotAPIClient._make_request (api_client.py) against a server *)
(*            that answers each attempt with an arbitrary status.          *)
(*                                                                         *)
(* Rows of the CSV tables are reduced to their natural keys; a Players.csv *)
(* row also keeps how many records of each category were aggregated.       *)
(***************************************************************************)
EXTENDS Integers, Sequences, FiniteSets, TLC

\* ------------------------------------------------------------------------
\* Bounds
\* ------------------------------------------------------------------------
\* Total number of injected faults (API failure, interrupt, kill) in a behaviour.
MaxFaults == 3
\* Backlog ceiling of bfs (1000 in main.py:100), instantiated small.
QueueCeiling == 1
\* Clock resolution of the rate-limiter model.
TicksPerSecond == 2
\* RateLimit(requests_per_second, requests_per_2min): 20 and 100 in
\* api_client.py:47, instantiated small.
requests_per_second == 2
requests_per_2min == 5
\* Number of wait_if_needed calls in a behaviour.
MaxCalls == 7
\* Number of _make_request calls in a behaviour.
MaxRequests == 1

\* ------------------------------------------------------------------------
\* The remote API's data: a fixed player/match graph
\* ------------------------------------------------------------------------
Ids == {"P1", "P2", "P3", "P4"}
MatchIdSet == {"M1", "M2", "M3"}
Category == {"swiftplay", "ranked"}
UNBOUND == "UNBOUND"

\* metadata.participants of each match, and the queue class it belongs to.
Participants(m) ==
    CASE m = "M1" -> <<"P1", "P2", "P3">>
      [] m = "M2" -> <<"P1", "P2">>
      [] m = "M3" -> <<"P2", "P4">>

MatchCategory(m) ==
    CASE m = "M1" -> "swiftplay"
      [] m = "M2" -> "ranked"
      [] m = "M3" -> "swiftplay"

AllMatches == <<"M1", "M2", "M3">>

Range(s) == {s[i] : i \in DOMAIN s}

\* get_match_ids(puuid, queue_type): the ids of the player's matches of that class.
get_match_ids(puuid, c) ==
    SelectSeq(AllMatches, LAMBDA m : MatchCategory(m) = c /\ puuid \in Range(Participants(m)))

\* ------------------------------------------------------------------------
\* State
\* ------------------------------------------------------------------------
VARIABLES
    \* DataManager files
    players,            \* Players.csv
    matches,            \* SwiftplayMatches.csv / RankedMatches.csv, by category
    player_matches,     \* SwiftplayPlayerMatchData.csv / RankedPlayerMatchData.csv
    queue_state,        \* queue_state.json
    \* the running process
    pc,                 \* position in main.py; "idle" when no process runs
    status,             \* how the last process ended
    queue,              \* LeagueBFS.queue
    visited_puuids,     \* LeagueBFS.visited_puuids
    match_id_cache,     \* DataManager.match_id_cache
    current_puuid,      \* local of bfs (UNBOUND before the first assignment)
    popped,             \* result of popleft() not yet stored in current_puuid
    add_to_queue,       \* local of bfs
    queue_type,         \* argument of the active _process_matches
    match_ids,          \* argument of the active _process_matches
    idx,                \* position of its for loop
    player_match_data,  \* its result list
    swiftplay_data,     \* local of _process_player
    \* history
    ever_queued,        \* ids ever put in the queue
    run_queued,         \* ids put in the queue of the last process, loaded ones included
    inflight,           \* id dequeued and not yet finished, or UNBOUND
    faults,             \* faults injected so far
    scen,               \* shape of the history (for the crash scenario)
    seed0,              \* seed of the first run
    \* RateLimit
    now,
    request_times_short,
    request_times_long,
    calls,              \* number of wait_if_needed calls so far
    entered_at,         \* clock value read on entry by the last wait_if_needed
    \* RiotAPIClient._make_request
    req_pc,             \* "idle", "attempt" (inside the while loop)
    endpoint,           \* the RiotAPIClient method that made the call
    allow_404,          \* its argument
    retry_count,        \* its local
    responses,          \* statuses received by the current call
    sleeps,             \* time.sleep durations of the current call, in seconds
    sent,               \* clock values at which the current call sent its HTTP requests
    admitted_at,        \* clock value recorded by the call's wait_if_needed
    req_result,         \* "none", "payload", "null", "raised"
    \* a client of DataManager
    dm_calls,           \* number of save_* calls made so far
    last_call,          \* the last DataManager call: method, arguments, return value
    restarted,          \* a new DataManager has been constructed over the stored files
    \* seeding (start_from_division / start_stratified_sampling)
    seed_pc,            \* "idle", "sampling" (in _sample_from_division), "returned"
    attempts,           \* local of _sample_from_division
    entries,            \* the league page fetched last
    pages_fetched,      \* get_league_entries calls of the current _sample_from_division
    bfs_seed,           \* the id the current _sample_from_division started bfs from, or UNBOUND
    divisions_left,     \* tier/division pairs the process has still to sample
    processes,          \* seeding processes started so far
    \* a call of _aggregate_player_data
    agg_swiftplay_data, \* its argument swiftplay_data
    agg_ranked_data,    \* its argument ranked_data
    agg_player_data,    \* its return value
    aggregated          \* the call has returned

storeVars == <<players, matches, player_matches, queue_state>>
procVars == <<pc, status, queue, visited_puuids, match_id_cache, current_puuid, popped,
              add_to_queue, queue_type, match_ids, idx, player_match_data, swiftplay_data>>
histVars == <<ever_queued, run_queued, inflight, faults, scen, seed0>>
matchLoopVars == <<queue_type, match_ids, idx, player_match_data, swiftplay_data>>
crawlVars == <<storeVars, procVars, histVars>>
rlVars == <<now, request_times_short, request_times_long, calls, entered_at>>
reqVars == <<req_pc, endpoint, allow_404, retry_count, responses, sleeps, sent, admitted_at, req_result>>
apiVars == <<rlVars, reqVars>>
dmVars == <<dm_calls, last_call, restarted>>
seedVars == <<seed_pc, attempts, entries, pages_fetched, bfs_seed, divisions_left, processes>>
aggVars == <<agg_swiftplay_data, agg_ranked_data, agg_player_data, aggregated>>
unitVars == <<dmVars, seedVars, aggVars>>
vars == <<crawlVars, rlVars, reqVars, unitVars>>

\* ------------------------------------------------------------------------
\* DataManager
\* ------------------------------------------------------------------------
PlayerIds(tbl) == {tbl[i].puuid : i \in DOMAIN tbl}

\* DataManager.player_exists
player_exists(puuid) == puuid \in PlayerIds(players)

\* DataManager.get_all_player_puuids
get_all_player_puuids == PlayerIds(players)

\* DataManager._initialize_files: the cache is loaded from both match files.
LoadedCache == Range(matches["swiftplay"]) \cup Range(matches["ranked"])

\* DataManager.match_exists: result, and the cache after the call.
\* variant: only the cache is consulted, the file is never read
match_exists_cache_only(m, c) == m \in match_id_cache
match_exists(m, c) == m \in match_id_cache \/ m \in Range(matches[c])
CacheAfterMatchExists(m, c) ==
    IF m \notin match_id_cache /\ m \in Range(matches[c])
    THEN match_id_cache \cup {m} ELSE match_id_cache

\* DataManager.get_player_match_data: is there a stored row for (m, puuid)?
has_player_match_data(m, puuid, c) == <<m, puuid>> \in Range(player_matches[c])

\* DataManager.save_player_matches: rows whose key is already stored are dropped.
NewRows(rows, existing) == SelectSeq(rows, LAMBDA r : r \notin Range(existing))
\* variant: every row is appended, stored or not
save_player_matches_unfiltered(rows, existing) == existing \o rows
\* variant: a row counts as stored as soon as its matchId occurs in the file
save_player_matches_by_match_id(rows, existing) ==
    existing \o SelectSeq(rows, LAMBDA r : \A i \in DOMAIN existing : existing[i][1] # r[1])
\* variant: a batch with one stored row is dropped as a whole
save_player_matches_all_or_nothing(rows, existing) ==
    IF NewRows(rows, existing) = rows THEN existing \o rows ELSE existing
save_player_matches(rows, existing) == existing \o NewRows(rows, existing)

\* DataManager.save_match / save_player: plain append.
save_match(m, existing) == Append(existing, m)
save_player(row, existing) == Append(existing, row)

\* json.dump / json.load of a list of strings. The text is a sequence of
\* tokens: brackets, the ", " separator, and a string literal as its opening
\* quote, its content and its closing quote.
RECURSIVE json_items(_)
json_items(q) ==
    IF q = <<>> THEN <<>>
    ELSE <<"\"", Head(q), "\"">> \o (IF Len(q) > 1 THEN <<",">> ELSE <<>>) \o json_items(Tail(q))
json_dump(q) == <<"[">> \o json_items(q) \o <<"]">>

JSONDecodeError == <<"JSONDecodeError">>
RECURSIVE json_elements(_, _)
json_elements(text, acc) ==
    IF Len(text) >= 4 /\ text[1] = "\"" /\ text[3] = "\""
                      /\ text[2] \notin {"[", "]", ",", "\""}
    THEN IF text[4] = "]" /\ Len(text) = 4 THEN Append(acc, text[2])
         ELSE IF text[4] = "," THEN json_elements(SubSeq(text, 5, Len(text)), Append(acc, text[2]))
         ELSE JSONDecodeError
    ELSE JSONDecodeError
json_load(text) ==
    IF text = <<"[", "]">> THEN <<>>
    ELSE IF text # <<>> /\ Head(text) = "[" THEN json_elements(Tail(text), <<>>)
    ELSE JSONDecodeError

\* queue_state.json does not exist
NoFile == <<"ENOENT">>

\* variant: the file is opened in append mode
save_queue_state_append(q, file) ==
    IF file = NoFile THEN json_dump(q) ELSE file \o json_dump(q)
\* DataManager.save_queue_state: open(..., 'w') drops the old text, json.dump
\* writes the new one; the result is the text of the file.
save_queue_state(q, file) == json_dump(q)

\* DataManager.load_queue_state
load_queue_state == IF queue_state = NoFile THEN <<>> ELSE json_load(queue_state)

\* LeagueBFS._extract_player_matches: one row per participant.
extract_player_matches(m) ==
    [i \in DOMAIN Participants(m) |-> <<m, Participants(m)[i]>>]

\* LeagueBFS._aggregate_player_data, reduced to the number of games per category.
aggregate_player_data(puuid, sw, rk) ==
    [puuid |-> puuid, swiftplay_games |-> Len(sw), ranked_games |-> Len(rk)]

\* LeagueBFS._add_teammates_to_queue
NewTeammates(m, visited) == SelectSeq(Participants(m), LAMBDA x : x \notin visited)

\* no DataManager method has been called yet
NoCall == [op |-> "none", arg |-> "none", category |-> "none", result |-> "none"]

\* ------------------------------------------------------------------------
\* Initial state
\* ------------------------------------------------------------------------
EmptyByCategory == [c \in Category |-> <<>>]

Init ==
    /\ players = <<>>
    /\ matches = EmptyByCategory
    /\ player_matches = EmptyByCategory
    /\ queue_state = NoFile
    /\ pc = "idle"
    /\ status = "none"
    /\ queue = <<>>
    /\ visited_puuids = {}
    /\ match_id_cache = {}
    /\ current_puuid = UNBOUND
    /\ popped = UNBOUND
    /\ add_to_queue = TRUE
    /\ queue_type = "swiftplay"
    /\ match_ids = <<>>
    /\ idx = 1
    /\ player_match_data = <<>>
    /\ swiftplay_data = <<>>
    /\ ever_queued = {}
    /\ run_queued = {}
    /\ inflight = UNBOUND
    /\ faults = 0
    /\ scen = "none"
    /\ seed0 = UNBOUND
    /\ now = 0
    /\ request_times_short = <<>>
    /\ request_times_long = <<>>
    /\ calls = 0
    /\ entered_at = 0
    /\ req_pc = "idle"
    /\ endpoint = "none"
    /\ allow_404 = FALSE
    /\ retry_count = 0
    /\ responses = <<>>
    /\ sleeps = <<>>
    /\ sent = <<>>
    /\ admitted_at = 0
    /\ req_result = "none"
    /\ dm_calls = 0
    /\ last_call = NoCall
    /\ restarted = FALSE
    /\ seed_pc = "idle"
    /\ attempts = 0
    /\ entries = <<>>
    /\ pages_fetched = 0
    /\ bfs_seed = UNBOUND
    /\ divisions_left = 0
    /\ processes = 0
    /\ agg_swiftplay_data = <<>>
    /\ agg_ranked_data = <<>>
    /\ agg_player_data = [puuid |-> UNBOUND]
    /\ aggregated = FALSE

\* Locals of a freshly constructed LeagueBFS / bfs frame.
FreshLocals ==
    /\ current_puuid' = UNBOUND
    /\ popped' = UNBOUND
    /\ add_to_queue' = TRUE
    /\ queue_type' = "swiftplay"
    /\ match_ids' = <<>>
    /\ idx' = 1
    /\ player_match_data' = <<>>
    /\ swiftplay_data' = <<>>
    /\ inflight' = UNBOUND

\* ------------------------------------------------------------------------
\* Starting a process (main)
\* ------------------------------------------------------------------------
\* _sample_from_division accepts a candidate with matches of both classes.
ValidSeed(puuid) ==
    get_match_ids(puuid, "swiftplay") # <<>> /\ get_match_ids(puuid, "ranked") # <<>>

\* main --tier: LeagueBFS(), seeding, then the prologue of bfs(start_puuid).
StartFresh(seed) ==
    /\ pc = "idle"
    /\ ValidSeed(seed)
    /\ queue' = <<seed>>
    /\ visited_puuids' = {seed}
    /\ match_id_cache' = LoadedCache
    /\ FreshLocals
    /\ pc' = "loop"
    /\ status' = "running"
    /\ ever_queued' = ever_queued \cup {seed}
    /\ run_queued' = {seed}
    /\ scen' = IF scen = "none" THEN "fresh" ELSE "void"
    /\ seed0' = IF scen = "none" THEN seed ELSE seed0
    /\ UNCHANGED <<storeVars, faults, apiVars, unitVars>>

\* main --resume: LeagueBFS(), resume_from_queue, then bfs(None).
Resume ==
    /\ pc = "idle"
    /\ match_id_cache' = LoadedCache
    /\ FreshLocals
    /\ IF load_queue_state = <<>>
       THEN /\ queue' = <<>>
            /\ visited_puuids' = {}
            /\ pc' = "idle"
            /\ status' = "no_queue"
       ELSE /\ queue' = load_queue_state
            /\ visited_puuids' = get_all_player_puuids
            /\ pc' = "loop"
            /\ status' = "running"
    /\ run_queued' = Range(queue')
    /\ scen' = IF scen = "crashed" THEN "resumed" ELSE "void"
    /\ UNCHANGED <<storeVars, ever_queued, faults, seed0, apiVars, unitVars>>

\* ------------------------------------------------------------------------
\* bfs
\* ------------------------------------------------------------------------
\* while self.queue: ... self.queue.popleft()
Dequeue ==
    /\ pc = "loop"
    /\ queue # <<>>
    /\ popped' = Head(queue)
    /\ queue' = Tail(queue)
    /\ inflight' = Head(queue)
    /\ pc' = "assign"
    /\ UNCHANGED <<storeVars, status, visited_puuids, match_id_cache, current_puuid,
                   add_to_queue, matchLoopVars, ever_queued, run_queued, faults, scen, seed0, apiVars, unitVars>>

\* the loop condition fails: bfs returns
Finish ==
    /\ pc = "loop"
    /\ queue = <<>>
    /\ pc' = "idle"
    /\ status' = "done"
    /\ UNCHANGED <<storeVars, queue, visited_puuids, match_id_cache, current_puuid, popped,
                   add_to_queue, matchLoopVars, histVars, apiVars, unitVars>>

\* current_puuid = <popped value>
Assign ==
    /\ pc = "assign"
    /\ current_puuid' = popped
    /\ popped' = UNBOUND
    /\ pc' = "save_queue"
    /\ UNCHANGED <<storeVars, status, queue, visited_puuids, match_id_cache,
                   add_to_queue, matchLoopVars, histVars, apiVars, unitVars>>

\* variant: add_to_queue is set again from the queue length at every dequeue
SaveQueue_recheck ==
    /\ pc = "save_queue"
    /\ queue_state' = save_queue_state(queue, queue_state)
    /\ add_to_queue' = ~(Len(queue) > QueueCeiling)
    /\ pc' = "process_player"
    /\ UNCHANGED <<players, matches, player_matches, status, queue, visited_puuids,
                   match_id_cache, current_puuid, popped, matchLoopVars, histVars, apiVars, unitVars>>

\* variant: the checkpoint is written before the id is taken off the queue
SaveQueue_with_current ==
    /\ pc = "save_queue"
    /\ queue_state' = save_queue_state(<<current_puuid>> \o queue, queue_state)
    /\ add_to_queue' = IF Len(queue) > QueueCeiling THEN FALSE ELSE add_to_queue
    /\ pc' = "process_player"
    /\ UNCHANGED <<players, matches, player_matches, status, queue, visited_puuids,
                   match_id_cache, current_puuid, popped, matchLoopVars, histVars, apiVars, unitVars>>

\* save_queue_state(list(self.queue)); if len(self.queue) > 1000: add_to_queue = False
SaveQueue ==
    /\ pc = "save_queue"
    /\ queue_state' = save_queue_state(queue, queue_state)
    /\ add_to_queue' = IF Len(queue) > QueueCeiling THEN FALSE ELSE add_to_queue
    /\ pc' = "process_player"
    /\ UNCHANGED <<players, matches, player_matches, status, queue, visited_puuids,
                   match_id_cache, current_puuid, popped, matchLoopVars, histVars, apiVars, unitVars>>

\* _process_player: an already stored player is skipped, otherwise the
\* swiftplay match ids are requested.
ProcessPlayer ==
    /\ pc = "process_player"
    /\ IF player_exists(current_puuid)
       THEN /\ pc' = "loop"
            /\ inflight' = UNBOUND
            /\ UNCHANGED matchLoopVars
       ELSE /\ pc' = "matches"
            /\ queue_type' = "swiftplay"
            /\ match_ids' = get_match_ids(current_puuid, "swiftplay")
            /\ idx' = 1
            /\ player_match_data' = <<>>
            /\ swiftplay_data' = <<>>
            /\ UNCHANGED inflight
    /\ UNCHANGED <<storeVars, status, queue, visited_puuids, match_id_cache, current_puuid,
                   popped, add_to_queue, ever_queued, run_queued, faults, scen, seed0, apiVars, unitVars>>

\* _process_matches, one turn of the for loop up to the API call: a known
\* match contributes its stored row; the end of the list returns to
\* _process_player, which requests the ranked ids or goes on to aggregate.
MatchLoop ==
    /\ pc = "matches"
    /\ IF idx > Len(match_ids)
       THEN IF queue_type = "swiftplay"
            THEN /\ swiftplay_data' = player_match_data
                 /\ queue_type' = "ranked"
                 /\ match_ids' = get_match_ids(current_puuid, "ranked")
                 /\ idx' = 1
                 /\ player_match_data' = <<>>
                 /\ pc' = "matches"
                 /\ UNCHANGED match_id_cache
            ELSE /\ pc' = "save_player"
                 /\ UNCHANGED <<matchLoopVars, match_id_cache>>
       ELSE LET m == match_ids[idx] IN
            /\ match_id_cache' = CacheAfterMatchExists(m, queue_type)
            /\ IF match_exists(m, queue_type)
               THEN /\ player_match_data' =
                         IF has_player_match_data(m, current_puuid, queue_type)
                         THEN Append(player_match_data, m) ELSE player_match_data
                    /\ idx' = idx + 1
                    /\ pc' = "matches"
               ELSE /\ pc' = "save_player_matches"
                    /\ UNCHANGED <<idx, player_match_data>>
            /\ UNCHANGED <<queue_type, match_ids, swiftplay_data>>
    /\ UNCHANGED <<storeVars, status, queue, visited_puuids, current_puuid, popped,
                   add_to_queue, histVars, apiVars, unitVars>>

\* get_match_details and _extract_player_matches succeeded:
\* save_player_matches(player_matches, queue_type)
SavePlayerMatches ==
    /\ pc = "save_player_matches"
    /\ player_matches' = [player_matches EXCEPT ![queue_type] =
            save_player_matches(extract_player_matches(match_ids[idx]), @)]
    /\ pc' = "save_match"
    /\ UNCHANGED <<players, matches, queue_state, status, queue, visited_puuids,
                   match_id_cache, current_puuid, popped, add_to_queue, matchLoopVars,
                   histVars, apiVars, unitVars>>

\* save_match(match_info, queue_type); the subject's own row is appended
SaveMatch ==
    /\ pc = "save_match"
    /\ matches' = [matches EXCEPT ![queue_type] = save_match(match_ids[idx], @)]
    /\ player_match_data' = Append(player_match_data, match_ids[idx])
    /\ pc' = "teammates"
    /\ UNCHANGED <<players, player_matches, queue_state, status, queue, visited_puuids,
                   match_id_cache, current_puuid, popped, add_to_queue, queue_type,
                   match_ids, idx, swiftplay_data, histVars, apiVars, unitVars>>

\* variant: teammates are added after the matches of either category
Teammates_any_category ==
    /\ pc = "teammates"
    /\ LET new == IF add_to_queue
                  THEN NewTeammates(match_ids[idx], visited_puuids) ELSE <<>> IN
       /\ queue' = queue \o new
       /\ visited_puuids' = visited_puuids \cup Range(new)
       /\ ever_queued' = ever_queued \cup Range(new)
       /\ run_queued' = run_queued \cup Range(new)
    /\ idx' = idx + 1
    /\ pc' = "matches"
    /\ UNCHANGED <<storeVars, status, match_id_cache, current_puuid, popped, add_to_queue,
                   queue_type, match_ids, player_match_data, swiftplay_data,
                   inflight, faults, scen, seed0, apiVars, unitVars>>

\* if add_to_queue and queue_type == "swiftplay": _add_teammates_to_queue
Teammates ==
    /\ pc = "teammates"
    /\ LET new == IF add_to_queue /\ queue_type = "swiftplay"
                  THEN NewTeammates(match_ids[idx], visited_puuids) ELSE <<>> IN
       /\ queue' = queue \o new
       /\ visited_puuids' = visited_puuids \cup Range(new)
       /\ ever_queued' = ever_queued \cup Range(new)
       /\ run_queued' = run_queued \cup Range(new)
    /\ idx' = idx + 1
    /\ pc' = "matches"
    /\ UNCHANGED <<storeVars, status, match_id_cache, current_puuid, popped, add_to_queue,
                   queue_type, match_ids, player_match_data, swiftplay_data,
                   inflight, faults, scen, seed0, apiVars, unitVars>>

\* _aggregate_player_data; save_player; _process_player returns to the loop
SavePlayer ==
    /\ pc = "save_player"
    /\ players' = save_player(
            aggregate_player_data(current_puuid, swiftplay_data, player_match_data), players)
    /\ inflight' = UNBOUND
    /\ pc' = "loop"
    /\ UNCHANGED <<matches, player_matches, queue_state, status, queue, visited_puuids,
                   match_id_cache, current_puuid, popped, add_to_queue, matchLoopVars,
                   ever_queued, run_queued, faults, scen, seed0, apiVars, unitVars>>

\* ------------------------------------------------------------------------
\* Failure of an API call inside _process_player
\* ------------------------------------------------------------------------
\* Positions whose next statement is an API call: get_match_ids (swiftplay),
\* get_match_ids (ranked), get_match_details / get_player_rank / get_champion_mastery.
AtApiCall ==
    \/ pc = "process_player" /\ ~player_exists(current_puuid)
    \/ pc = "matches" /\ idx > Len(match_ids) /\ queue_type = "swiftplay"
    \/ pc = "save_player_matches"

\* _make_request raises; the exception reaches `except Exception` of bfs
ApiError ==
    /\ AtApiCall
    /\ faults < MaxFaults
    /\ faults' = faults + 1
    /\ scen' = "void"
    /\ pc' = "except"
    /\ UNCHANGED <<storeVars, status, queue, visited_puuids, match_id_cache, current_puuid,
                   popped, add_to_queue, matchLoopVars, ever_queued, run_queued, inflight, seed0, apiVars, unitVars>>

\* variant: the failed id is put back at the end of the queue
ExceptRequeue_at_back ==
    /\ pc = "except"
    /\ queue' = Append(queue, current_puuid)
    /\ pc' = "except_save"
    /\ UNCHANGED <<storeVars, status, visited_puuids, match_id_cache, current_puuid, popped,
                   add_to_queue, matchLoopVars, histVars, apiVars, unitVars>>

\* self.queue.appendleft(current_puuid)
ExceptRequeue ==
    /\ pc = "except"
    /\ queue' = <<current_puuid>> \o queue
    /\ pc' = "except_save"
    /\ UNCHANGED <<storeVars, status, visited_puuids, match_id_cache, current_puuid, popped,
                   add_to_queue, matchLoopVars, histVars, apiVars, unitVars>>

\* self.data_manager.save_queue_state(list(self.queue))
ExceptSave ==
    /\ pc = "except_save"
    /\ queue_state' = save_queue_state(queue, queue_state)
    /\ pc' = "except_raise"
    /\ UNCHANGED <<players, matches, player_matches, status, queue, visited_puuids,
                   match_id_cache, current_puuid, popped, add_to_queue, matchLoopVars,
                   histVars, apiVars, unitVars>>

\* raise: the error leaves bfs and ends the run in main
ExceptRaise ==
    /\ pc = "except_raise"
    /\ pc' = "idle"
    /\ status' = "error"
    /\ UNCHANGED <<storeVars, queue, visited_puuids, match_id_cache, current_puuid, popped,
                   add_to_queue, matchLoopVars, histVars, apiVars, unitVars>>

\* ------------------------------------------------------------------------
\* KeyboardInterrupt and abrupt termination
\* ------------------------------------------------------------------------
Running == pc # "idle"

\* KeyboardInterrupt somewhere inside the try block of bfs, handled by
\* `except KeyboardInterrupt`: an unbound current_puuid makes the handler
\* itself fail before anything is saved.
KeyboardInterrupt ==
    /\ Running
    /\ faults < MaxFaults
    /\ faults' = faults + 1
    /\ scen' = "void"
    /\ pc' = "idle"
    /\ IF current_puuid = UNBOUND
       THEN /\ status' = "unbound_error"
            /\ UNCHANGED <<queue, queue_state>>
       ELSE /\ status' = "interrupted"
            /\ queue' = <<current_puuid>> \o queue
            /\ queue_state' = save_queue_state(queue', queue_state)
    /\ UNCHANGED <<players, matches, player_matches, visited_puuids, match_id_cache,
                   current_puuid, popped, add_to_queue, matchLoopVars, ever_queued, run_queued,
                   inflight, seed0, apiVars, unitVars>>

\* The process is killed: memory is gone, the files stay as they are.
ProcessGone ==
    /\ pc' = "idle"
    /\ status' = "crashed"
    /\ queue' = <<>>
    /\ visited_puuids' = {}
    /\ match_id_cache' = {}
    /\ FreshLocals

Crash ==
    /\ Running
    /\ faults < MaxFaults
    /\ faults' = faults + 1
    /\ scen' = IF scen = "fresh" /\ pc = "process_player" THEN "crashed" ELSE "void"
    /\ ProcessGone
    /\ UNCHANGED <<storeVars, ever_queued, run_queued, seed0, apiVars, unitVars>>

\* Killed while save_player_matches appends: only some of the new rows reach the file.
CrashInAppend ==
    /\ pc = "save_player_matches"
    /\ faults < MaxFaults
    /\ faults' = faults + 1
    /\ scen' = "void"
    /\ LET new == NewRows(extract_player_matches(match_ids[idx]), player_matches[queue_type]) IN
       \E n \in 1 .. Len(new) - 1 :
          player_matches' = [player_matches EXCEPT ![queue_type] = @ \o SubSeq(new, 1, n)]
    /\ ProcessGone
    /\ UNCHANGED <<players, matches, queue_state, ever_queued, run_queued, seed0, apiVars, unitVars>>

\* ------------------------------------------------------------------------
\* Specification of the crawler
\* ------------------------------------------------------------------------
Next ==
    \/ \E seed \in Ids : StartFresh(seed)
    \/ Resume
    \/ Dequeue
    \/ Finish
    \/ Assign
    \/ SaveQueue
    \/ ProcessPlayer
    \/ MatchLoop
    \/ SavePlayerMatches
    \/ SaveMatch
    \/ Teammates
    \/ SavePlayer
    \/ ApiError
    \/ ExceptRequeue
    \/ ExceptSave
    \/ ExceptRaise
    \/ KeyboardInterrupt
    \/ Crash
    \/ CrashInAppend

Spec == Init /\ [][Next]_vars

\* The statements of bfs and of what it calls: a running process that is not
\* interrupted or killed always executes its next statement.
Step ==
    \/ Dequeue
    \/ Finish
    \/ Assign
    \/ SaveQueue
    \/ ProcessPlayer
    \/ MatchLoop
    \/ SavePlayerMatches
    \/ SaveMatch
    \/ Teammates
    \/ SavePlayer
    \/ ExceptRequeue
    \/ ExceptSave
    \/ ExceptRaise

SpecLive == Spec /\ WF_vars(Step)

\* main(): the exit status of the process, once it has ended. Both except
\* clauses of main log and fall off the end of main, like the normal return,
\* and the interpreter then exits with 0; a killed process ends by its signal.
Killed == "SIGKILL"
NotEnded == "not ended"
exit_status ==
    CASE status \in {"done", "no_queue"} -> 0
      [] status = "interrupted" -> 0
      [] status \in {"error", "unbound_error"} -> 0
      [] status = "crashed" -> Killed
      [] OTHER -> NotEnded

\* ------------------------------------------------------------------------
\* RateLimit (api_client.py)
\* ------------------------------------------------------------------------
\* The two windows of wait_if_needed, 1 s and 120 s, in ticks.
ShortWindow == 1 * TicksPerSecond
LongWindow == 120 * TicksPerSecond

\* Time that passes between two calls, in ticks.
Gaps == {0, 1, ShortWindow + 1, LongWindow + 1}
\* Time by which the clock read after the sleeps is later than the wake-up time.
Lateness == {0, 1}

\* while times and current_time - times[0] > window: times.popleft()
RECURSIVE DropOld(_, _, _)
DropOld(times, current_time, window) ==
    IF times # <<>> /\ current_time - times[1] > window
    THEN DropOld(Tail(times), current_time, window)
    ELSE times

\* variant: the wait ends one tick before the oldest entry leaves the window
WaitTime_one_tick_short(times, current_time, limit, window) ==
    IF Len(times) >= limit /\ window - (current_time - times[1]) > 1
    THEN window - (current_time - times[1]) - 1
    ELSE 0
\* the wait computed by one of the two checks (0: no sleep)
WaitTime(times, current_time, limit, window) ==
    IF Len(times) >= limit /\ window - (current_time - times[1]) > 0
    THEN window - (current_time - times[1])
    ELSE 0

\* RateLimit.wait_if_needed, called gap ticks after the previous recording.
\* Both waits are computed from the clock value read on entry.
WaitIfNeeded(gap, late) ==
    LET current_time == now + gap
        short == DropOld(request_times_short, current_time, ShortWindow)
        long == DropOld(request_times_long, current_time, LongWindow)
        wait_short == WaitTime(short, current_time, requests_per_second, ShortWindow)
        wait_long == WaitTime(long, current_time, requests_per_2min, LongWindow)
        slept == wait_short + wait_long
        recorded == current_time + slept + (IF slept > 0 THEN late ELSE 0)
    IN  /\ calls < MaxCalls
        /\ calls' = calls + 1
        /\ entered_at' = current_time
        /\ now' = recorded
        /\ request_times_short' = Append(short, recorded)
        /\ request_times_long' = Append(long, recorded)

\* a caller of wait_if_needed alone
Admit ==
    /\ \E gap \in Gaps, late \in Lateness : WaitIfNeeded(gap, late)
    /\ UNCHANGED <<crawlVars, reqVars, unitVars>>

NextRL == Admit

SpecRL == Init /\ [][NextRL]_vars

\* ------------------------------------------------------------------------
\* RiotAPIClient._make_request (api_client.py)
\* ------------------------------------------------------------------------
max_retries == 3
\* Retry-After assumed when the 429 response has no such header
DefaultRetryAfter == 60
\* Answers of the server to one HTTP request; "error" is a transport failure.
Statuses == {"200", "404", "429", "500", "error"}
\* Retry-After values sent by the server, in seconds.
RetryAfterValues == {1, 2}

Pow2(n) == IF n = 1 THEN 2 ELSE IF n = 2 THEN 4 ELSE 8

\* the methods of RiotAPIClient that call _make_request
Endpoints == {"get_league_entries", "get_match_ids", "get_match_details",
              "get_player_rank", "get_champion_mastery"}
\* the allow_404 argument each of them passes (default False)
AllowsNotFound(e) == e = "get_champion_mastery"

\* entry of _make_request: wait_if_needed(), max_retries = 3, retry_count = 0
BeginRequest ==
    /\ req_pc = "idle"
    /\ calls < MaxRequests
    /\ \E gap \in Gaps, late \in Lateness : WaitIfNeeded(gap, late)
    /\ \E e \in Endpoints : /\ endpoint' = e
                            /\ allow_404' = AllowsNotFound(e)
    /\ req_pc' = "attempt"
    /\ retry_count' = 0
    /\ responses' = <<>>
    /\ sleeps' = <<>>
    /\ sent' = <<>>
    /\ admitted_at' = now'
    /\ req_result' = "none"
    /\ UNCHANGED <<crawlVars, unitVars>>

\* Attempt with the loop test `retry_count <= max_retries`
Attempt_one_more(resp, has_header, header) ==
    LET retry_after == IF has_header THEN header ELSE DefaultRetryAfter
        returns == resp = "200" \/ (resp = "404" /\ allow_404)
        retry_sleep == IF resp = "429" THEN <<retry_after>> ELSE <<>>
        backoff == Pow2(retry_count + 1)
    IN  /\ req_pc = "attempt"
        /\ retry_count <= max_retries
        /\ responses' = Append(responses, resp)
        /\ sent' = Append(sent, now)
        /\ IF returns
           THEN /\ req_result' = IF resp = "200" THEN "payload" ELSE "null"
                /\ req_pc' = "idle"
                /\ UNCHANGED <<retry_count, sleeps, now>>
           ELSE /\ retry_count' = retry_count + 1
                /\ sleeps' = sleeps \o retry_sleep \o <<backoff>>
                /\ now' = now + TicksPerSecond *
                            ((IF resp = "429" THEN retry_after ELSE 0) + backoff)
                /\ IF retry_count + 1 <= max_retries
                   THEN /\ req_pc' = "attempt"
                        /\ UNCHANGED req_result
                   ELSE /\ req_pc' = "idle"
                        /\ req_result' = "raised"
        /\ UNCHANGED <<request_times_short, request_times_long, calls, entered_at, endpoint, allow_404,
                       admitted_at, crawlVars, unitVars>>

\* Attempt returning None for a 404 whatever allow_404 says
Attempt_any_404_is_absent(resp, has_header, header) ==
    LET retry_after == IF has_header THEN header ELSE DefaultRetryAfter
        returns == resp = "200" \/ resp = "404"
        retry_sleep == IF resp = "429" THEN <<retry_after>> ELSE <<>>
        backoff == Pow2(retry_count + 1)
    IN  /\ req_pc = "attempt"
        /\ retry_count < max_retries
        /\ responses' = Append(responses, resp)
        /\ sent' = Append(sent, now)
        /\ IF returns
           THEN /\ req_result' = IF resp = "200" THEN "payload" ELSE "null"
                /\ req_pc' = "idle"
                /\ UNCHANGED <<retry_count, sleeps, now>>
           ELSE /\ retry_count' = retry_count + 1
                /\ sleeps' = sleeps \o retry_sleep \o <<backoff>>
                /\ now' = now + TicksPerSecond *
                            ((IF resp = "429" THEN retry_after ELSE 0) + backoff)
                /\ IF retry_count + 1 < max_retries
                   THEN /\ req_pc' = "attempt"
                        /\ UNCHANGED req_result
                   ELSE /\ req_pc' = "idle"
                        /\ req_result' = "raised"
        /\ UNCHANGED <<request_times_short, request_times_long, calls, entered_at, endpoint, allow_404,
                       admitted_at, crawlVars, unitVars>>

\* one turn of `while retry_count < max_retries`: requests.get, the status
\* dispatch, then retry_count += 1 and the backoff sleep for every outcome
\* that did not return.
Attempt(resp, has_header, header) ==
    LET retry_after == IF has_header THEN header ELSE DefaultRetryAfter
        returns == resp = "200" \/ (resp = "404" /\ allow_404)
        retry_sleep == IF resp = "429" THEN <<retry_after>> ELSE <<>>
        backoff == Pow2(retry_count + 1)
    IN  /\ req_pc = "attempt"
        /\ retry_count < max_retries
        /\ responses' = Append(responses, resp)
        /\ sent' = Append(sent, now)
        /\ IF returns
           THEN /\ req_result' = IF resp = "200" THEN "payload" ELSE "null"
                /\ req_pc' = "idle"
                /\ UNCHANGED <<retry_count, sleeps, now>>
           ELSE /\ retry_count' = retry_count + 1
                /\ sleeps' = sleeps \o retry_sleep \o <<backoff>>
                /\ now' = now + TicksPerSecond *
                            ((IF resp = "429" THEN retry_after ELSE 0) + backoff)
                /\ IF retry_count + 1 < max_retries
                   THEN /\ req_pc' = "attempt"
                        /\ UNCHANGED req_result
                   ELSE /\ req_pc' = "idle"
                        /\ req_result' = "raised"
        /\ UNCHANGED <<request_times_short, request_times_long, calls, entered_at, endpoint, allow_404,
                       admitted_at, crawlVars, unitVars>>

Respond ==
    \E resp \in Statuses, has_header \in BOOLEAN, header \in RetryAfterValues :
        Attempt(resp, has_header, header)

NextReq == BeginRequest \/ Respond

SpecReq == Init /\ [][NextReq]_vars

\* ------------------------------------------------------------------------
\* DataManager called directly (data_manager.py): any sequence of its methods
\* on one set of files, and new DataManager objects over the same files
\* ------------------------------------------------------------------------
MaxSaves == 2
MaxSeq == 2
StoreMatches == {"M1", "M2"}
StorePlayers == {"P1", "P2"}
\* participant rows a caller may pass, by key (matchId, puuid)
StoreRows == {<<"M1", p>> : p \in StorePlayers}
\* player rows a caller may pass
StorePlayerData == {aggregate_player_data(p, <<"M1">>, rk) : p \in StorePlayers, rk \in {<<>>, <<"M2">>}}
SeqsOf(S) == UNION {[1 .. n -> S] : n \in 0 .. MaxSeq}
\* what a DataManager call leaves alone besides the files and the cache
dmRest == <<pc, status, queue, visited_puuids, current_puuid, popped, add_to_queue,
            matchLoopVars, histVars, apiVars, seedVars, aggVars>>

Call(op, arg, c, result) == [op |-> op, arg |-> arg, category |-> c, result |-> result]

DMSaveMatch(m, c) ==
    /\ dm_calls < MaxSaves
    /\ matches' = [matches EXCEPT ![c] = save_match(m, @)]
    /\ dm_calls' = dm_calls + 1
    /\ last_call' = Call("save_match", m, c, "None")
    /\ UNCHANGED <<players, player_matches, queue_state, match_id_cache, restarted>>
    /\ UNCHANGED dmRest

DMSavePlayer(player_data) ==
    /\ dm_calls < MaxSaves
    /\ players' = save_player(player_data, players)
    /\ dm_calls' = dm_calls + 1
    /\ last_call' = Call("save_player", player_data.puuid, "none", "None")
    /\ UNCHANGED <<matches, player_matches, queue_state, match_id_cache, restarted>>
    /\ UNCHANGED dmRest

DMSavePlayerMatches(rows, c) ==
    /\ dm_calls < MaxSaves
    /\ player_matches' = [player_matches EXCEPT ![c] = save_player_matches(rows, @)]
    /\ dm_calls' = dm_calls + 1
    /\ last_call' = Call("save_player_matches", rows, c, "None")
    /\ UNCHANGED <<players, matches, queue_state, match_id_cache, restarted>>
    /\ UNCHANGED dmRest

DMSaveQueueState(q) ==
    /\ dm_calls < MaxSaves
    /\ queue_state' = save_queue_state(q, queue_state)
    /\ dm_calls' = dm_calls + 1
    /\ last_call' = Call("save_queue_state", q, "none", "None")
    /\ UNCHANGED <<players, matches, player_matches, match_id_cache, restarted>>
    /\ UNCHANGED dmRest

DMLoadQueueState ==
    /\ last_call' = Call("load_queue_state", "none", "none", load_queue_state)
    /\ UNCHANGED <<storeVars, match_id_cache, dm_calls, restarted>>
    /\ UNCHANGED dmRest

DMMatchExists(m, c) ==
    /\ last_call' = Call("match_exists", m, c, match_exists(m, c))
    /\ match_id_cache' = CacheAfterMatchExists(m, c)
    /\ UNCHANGED <<storeVars, dm_calls, restarted>>
    /\ UNCHANGED dmRest

DMPlayerExists(p) ==
    /\ last_call' = Call("player_exists", p, "none", player_exists(p))
    /\ UNCHANGED <<storeVars, match_id_cache, dm_calls, restarted>>
    /\ UNCHANGED dmRest

\* DataManager(): _initialize_files loads the cache from the two match files
DMNew ==
    /\ match_id_cache' = LoadedCache
    /\ restarted' = TRUE
    /\ last_call' = Call("__init__", "none", "none", "None")
    /\ UNCHANGED <<storeVars, dm_calls>>
    /\ UNCHANGED dmRest

NextStore ==
    \/ \E m \in StoreMatches, c \in Category : DMSaveMatch(m, c)
    \/ \E player_data \in StorePlayerData : DMSavePlayer(player_data)
    \/ \E rows \in SeqsOf(StoreRows), c \in Category : DMSavePlayerMatches(rows, c)
    \/ \E q \in SeqsOf(StorePlayers) : DMSaveQueueState(q)
    \/ DMLoadQueueState
    \/ \E m \in StoreMatches, c \in Category : DMMatchExists(m, c)
    \/ \E p \in StorePlayers : DMPlayerExists(p)
    \/ DMNew

SpecStore == Init /\ [][NextStore]_vars

\* ------------------------------------------------------------------------
\* The same crawl as one uninterrupted computation
\* ------------------------------------------------------------------------
\* State of a run that starts with bfs(seed) over an empty store.
RunStart(seed) ==
    [queue |-> <<seed>>, visited |-> {seed}, cache |-> {}, add |-> TRUE,
     players |-> <<>>, matches |-> EmptyByCategory, player_matches |-> EmptyByCategory]

\* _process_matches(puuid, ids, c, add): the state afterwards and the returned list
RECURSIVE RunMatches(_, _, _, _, _, _)
RunMatches(s, puuid, ids, c, add, data) ==
    IF ids = <<>> THEN [s |-> s, data |-> data]
    ELSE LET m == Head(ids)
             in_file == m \in Range(s.matches[c])
         IN IF m \in s.cache \/ in_file
            THEN RunMatches([s EXCEPT !.cache = IF in_file THEN @ \cup {m} ELSE @],
                            puuid, Tail(ids), c, add,
                            IF <<m, puuid>> \in Range(s.player_matches[c])
                            THEN Append(data, m) ELSE data)
            ELSE LET new == IF add /\ c = "swiftplay"
                            THEN NewTeammates(m, s.visited) ELSE <<>>
                 IN RunMatches(
                      [s EXCEPT !.player_matches[c] =
                                    save_player_matches(extract_player_matches(m), @),
                                !.matches[c] = save_match(m, @),
                                !.queue = @ \o new,
                                !.visited = @ \cup Range(new)],
                      puuid, Tail(ids), c, add, Append(data, m))

\* _process_player(puuid, add_to_queue)
RunPlayer(s, puuid) ==
    IF puuid \in PlayerIds(s.players) THEN s
    ELSE LET sw == RunMatches(s, puuid, get_match_ids(puuid, "swiftplay"),
                              "swiftplay", s.add, <<>>)
             rk == RunMatches(sw.s, puuid, get_match_ids(puuid, "ranked"),
                              "ranked", FALSE, <<>>)
         IN [rk.s EXCEPT !.players =
                 save_player(aggregate_player_data(puuid, sw.data, rk.data), @)]

\* the while loop of bfs, to the end
RECURSIVE RunBfs(_)
RunBfs(s) ==
    IF s.queue = <<>> THEN s
    ELSE LET rest == Tail(s.queue)
             s1 == [s EXCEPT !.queue = rest,
                             !.add = IF Len(rest) > QueueCeiling THEN FALSE ELSE @]
         IN RunBfs(RunPlayer(s1, Head(s.queue)))

\* the five record tables
Tables == <<players, matches, player_matches>>
TablesOf(s) == <<s.players, s.matches, s.player_matches>>

\* The stepwise model and the one-shot computation agree on a run without faults.
UninterruptedRunAgrees ==
    (pc = "idle" /\ status = "done" /\ scen = "fresh") => Tables = TablesOf(RunBfs(RunStart(seed0)))

\* ------------------------------------------------------------------------
\* Seeding (main.py): a process that samples one division, or sweeps several,
\* with each bfs run to its end
\* ------------------------------------------------------------------------
max_attempts == 5
MaxProcesses == 2
MaxDivisions == 2
\* league pages the server may return: lists of entries, by their puuid
Pages == SeqsOf(Ids)

\* what seeding leaves alone
seedRest == <<pc, status, current_puuid, popped, add_to_queue, matchLoopVars, histVars,
              apiVars, dmVars, aggVars>>

\* the scan of one page: the first entry that is not in visited_puuids and
\* has match ids in both categories, or UNBOUND
Candidates(page, visited) == SelectSeq(page, LAMBDA x : x \notin visited /\ ValidSeed(x))
FirstCandidate(page, visited) ==
    IF Candidates(page, visited) = <<>> THEN UNBOUND ELSE Head(Candidates(page, visited))

\* bfs(start_puuid) run to its end on the current state
BfsFrom(puuid) ==
    RunBfs([queue |-> Append(queue, puuid), visited |-> visited_puuids \cup {puuid},
            cache |-> match_id_cache, add |-> TRUE,
            players |-> players, matches |-> matches, player_matches |-> player_matches])

\* main --tier (sweep = FALSE) or start_stratified_sampling (sweep = TRUE):
\* LeagueBFS() and the first call of _sample_from_division
SeedStart(sweep) ==
    /\ seed_pc = "idle"
    /\ processes < MaxProcesses
    /\ processes' = processes + 1
    /\ queue' = <<>>
    /\ visited_puuids' = {}
    /\ match_id_cache' = LoadedCache
    /\ divisions_left' = IF sweep THEN MaxDivisions - 1 ELSE 0
    /\ seed_pc' = "sampling"
    /\ attempts' = 0
    /\ entries' = <<>>
    /\ pages_fetched' = 0
    /\ bfs_seed' = UNBOUND
    /\ UNCHANGED <<storeVars, seedRest>>

\* one turn of `while attempts < 5`: a page is fetched and scanned
SamplePage(page) ==
    /\ seed_pc = "sampling"
    /\ attempts < max_attempts
    /\ entries' = page
    /\ pages_fetched' = pages_fetched + 1
    /\ LET puuid == FirstCandidate(page, visited_puuids)
       IN IF puuid = UNBOUND
          THEN /\ attempts' = attempts + 1
               /\ UNCHANGED <<storeVars, queue, visited_puuids, match_id_cache, seed_pc, bfs_seed>>
          ELSE LET r == BfsFrom(puuid)
               IN /\ bfs_seed' = puuid
                  /\ players' = r.players
                  /\ matches' = r.matches
                  /\ player_matches' = r.player_matches
                  /\ queue_state' = save_queue_state(r.queue, queue_state)
                  /\ queue' = r.queue
                  /\ visited_puuids' = r.visited
                  /\ match_id_cache' = r.cache
                  /\ seed_pc' = "returned"
                  /\ UNCHANGED attempts
    /\ UNCHANGED <<divisions_left, processes, seedRest>>

\* the while loop ends after max_attempts pages without a candidate
SampleGiveUp ==
    /\ seed_pc = "sampling"
    /\ attempts >= max_attempts
    /\ seed_pc' = "returned"
    /\ UNCHANGED <<storeVars, queue, visited_puuids, match_id_cache, attempts, entries,
                   pages_fetched, bfs_seed, divisions_left, processes, seedRest>>

\* start_stratified_sampling: the next tier/division
NextDivision ==
    /\ seed_pc = "returned"
    /\ divisions_left > 0
    /\ divisions_left' = divisions_left - 1
    /\ seed_pc' = "sampling"
    /\ attempts' = 0
    /\ entries' = <<>>
    /\ pages_fetched' = 0
    /\ bfs_seed' = UNBOUND
    /\ UNCHANGED <<storeVars, queue, visited_puuids, match_id_cache, processes, seedRest>>

\* the process ends
SeedEnd ==
    /\ seed_pc = "returned"
    /\ divisions_left = 0
    /\ seed_pc' = "idle"
    /\ UNCHANGED <<storeVars, queue, visited_puuids, match_id_cache, attempts, entries,
                   pages_fetched, bfs_seed, divisions_left, processes, seedRest>>

NextSeed ==
    \/ \E sweep \in BOOLEAN : SeedStart(sweep)
    \/ \E page \in Pages : SamplePage(page)
    \/ SampleGiveUp
    \/ NextDivision
    \/ SeedEnd

SpecSeed == Init /\ [][NextSeed]_vars

\* ------------------------------------------------------------------------
\* LeagueBFS._aggregate_player_data in full (main.py)
\* ------------------------------------------------------------------------
MaxStat == 1
MaxMatches == 2
\* the fields of a participant row that the aggregation reads
MatchRecords == [kills : 0 .. MaxStat, deaths : 0 .. MaxStat, assists : 0 .. MaxStat,
                 win : BOOLEAN, tier : {"UNRANKED", "GOLD"}]
MatchLists == UNION {[1 .. n -> MatchRecords] : n \in 0 .. MaxMatches}

\* values of the returned dictionary: None, an int, a float as numerator and
\* denominator of the division that produced it
Null == <<>>
IntValue(n) == <<n>>
Ratio(n, d) == <<n, d>>
Max(a, b) == IF a >= b THEN a ELSE b

\* the loop `for match in data: stats[...] += ...`
RECURSIVE Accumulate(_, _)
Accumulate(stats, data) ==
    IF data = <<>> THEN stats
    ELSE LET match == Head(data)
         IN Accumulate([kills |-> stats.kills + match.kills,
                        deaths |-> stats.deaths + match.deaths,
                        assists |-> stats.assists + match.assists,
                        wins |-> stats.wins + (IF match.win THEN 1 ELSE 0),
                        total_games |-> stats.total_games],
                       Tail(data))
NewStats(data) == [kills |-> 0, deaths |-> 0, assists |-> 0, wins |-> 0, total_games |-> Len(data)]

\* `if tier == "UNRANKED": tier = match["tier"]` along the swiftplay loop
\* (rank and summonerLevel are taken from the same matches)
RECURSIVE RankInfo(_, _)
RankInfo(tier, data) ==
    IF data = <<>> THEN tier
    ELSE RankInfo(IF tier = "UNRANKED" THEN Head(data).tier ELSE tier, Tail(data))

swiftplay_fields(sw_data) ==
    LET swiftplay_stats == Accumulate(NewStats(sw_data), sw_data)
        deaths_for_ratio == Max(1, swiftplay_stats.deaths)
    IN [swiftplay_kills |-> IntValue(swiftplay_stats.kills),
        swiftplay_deaths |-> IntValue(swiftplay_stats.deaths),
        swiftplay_assists |-> IntValue(swiftplay_stats.assists),
        swiftplay_kd |-> Ratio(swiftplay_stats.kills, deaths_for_ratio),
        swiftplay_ad |-> Ratio(swiftplay_stats.assists, deaths_for_ratio),
        swiftplay_kda |-> Ratio(2 * swiftplay_stats.kills + swiftplay_stats.assists,
                                2 * deaths_for_ratio),
        swiftplay_kad |-> Ratio(swiftplay_stats.kills + swiftplay_stats.assists,
                                deaths_for_ratio),
        swiftplay_win_loss_ratio |->
            Ratio(swiftplay_stats.wins,
                  Max(1, swiftplay_stats.total_games - swiftplay_stats.wins))]

\* variant: without ranked matches the ranked fields are those of empty sums
ranked_fields_zero_when_empty(rk_data) ==
    LET ranked_stats == Accumulate(NewStats(rk_data), rk_data)
        deaths_for_ratio == Max(1, ranked_stats.deaths)
    IN [ranked_kills |-> IntValue(ranked_stats.kills),
        ranked_deaths |-> IntValue(ranked_stats.deaths),
        ranked_assists |-> IntValue(ranked_stats.assists),
        ranked_kd |-> Ratio(ranked_stats.kills, deaths_for_ratio),
        ranked_ad |-> Ratio(ranked_stats.assists, deaths_for_ratio),
        ranked_kda |-> Ratio(2 * ranked_stats.kills + ranked_stats.assists,
                             2 * deaths_for_ratio),
        ranked_kad |-> Ratio(ranked_stats.kills + ranked_stats.assists, deaths_for_ratio),
        ranked_win_loss_ratio |->
            Ratio(ranked_stats.wins, Max(1, ranked_stats.total_games - ranked_stats.wins))]
\* `ranked_stats = None; if ranked_data: ...` and `if ranked_stats: ... else: ...`
ranked_fields(rk_data) ==
    IF rk_data # <<>>
    THEN LET ranked_stats == Accumulate(NewStats(rk_data), rk_data)
             deaths_for_ratio == Max(1, ranked_stats.deaths)
         IN [ranked_kills |-> IntValue(ranked_stats.kills),
             ranked_deaths |-> IntValue(ranked_stats.deaths),
             ranked_assists |-> IntValue(ranked_stats.assists),
             ranked_kd |-> Ratio(ranked_stats.kills, deaths_for_ratio),
             ranked_ad |-> Ratio(ranked_stats.assists, deaths_for_ratio),
             ranked_kda |-> Ratio(2 * ranked_stats.kills + ranked_stats.assists,
                                  2 * deaths_for_ratio),
             ranked_kad |-> Ratio(ranked_stats.kills + ranked_stats.assists,
                                  deaths_for_ratio),
             ranked_win_loss_ratio |->
                 Ratio(ranked_stats.wins,
                       Max(1, ranked_stats.total_games - ranked_stats.wins))]
    ELSE [ranked_kills |-> Null, ranked_deaths |-> Null, ranked_assists |-> Null,
          ranked_kd |-> Null, ranked_ad |-> Null, ranked_kda |-> Null,
          ranked_kad |-> Null, ranked_win_loss_ratio |-> Null]

aggregate_player_stats(puuid, sw_data, rk_data) ==
    [puuid |-> puuid, tier |-> RankInfo("UNRANKED", sw_data)]
        @@ swiftplay_fields(sw_data) @@ ranked_fields(rk_data)

\* one call, on the rows of one player split into the two categories
Aggregate(rows, n) ==
    /\ ~aggregated
    /\ agg_swiftplay_data' = SubSeq(rows, 1, n)
    /\ agg_ranked_data' = SubSeq(rows, n + 1, Len(rows))
    /\ agg_player_data' = aggregate_player_stats("P1", SubSeq(rows, 1, n), SubSeq(rows, n + 1, Len(rows)))
    /\ aggregated' = TRUE
    /\ UNCHANGED <<crawlVars, apiVars, dmVars, seedVars>>

NextAgg ==
    /\ ~aggregated
    /\ \E rows \in MatchLists : \E n \in 0 .. Len(rows) : Aggregate(rows, n)

SpecAgg == Init /\ [][NextAgg]_vars

\* ------------------------------------------------------------------------
\* Properties of the crawler (Spec)
\* ------------------------------------------------------------------------
\* what was appended to a sequence
Appended(before, after) == SubSeq(after, Len(before) + 1, Len(after))
NoDuplicates(s) == \A i, j \in DOMAIN s : s[i] = s[j] => i = j
Keys(tbl) == [i \in DOMAIN tbl |-> tbl[i].puuid]

\* C1: while bfs runs, every id that was ever put in the queue and has no
\* Players.csv row is in the persisted checkpoint, so a kill at that point
\* followed by --resume loses no id.
C1_NoLostWorkOnKill ==
    Running =>
        \A x \in ever_queued : x \notin PlayerIds(players) => x \in Range(load_queue_state)

\* C2: a first run over an empty store that is killed right after the
\* checkpoint write of a step (before _process_player starts) and is then
\* resumed to its end leaves the same five tables as the run without the kill.
C2_CrashAfterCheckpointEquivalence ==
    (pc = "idle" /\ status \in {"done", "no_queue"} /\ scen = "resumed")
        => Tables = TablesOf(RunBfs(RunStart(seed0)))

\* C3: whatever the errors, interrupts, kills and restarts, a match table has
\* at most one row per matchId, a participant table at most one row per
\* (matchId, puuid), and Players.csv at most one row per puuid.
C3_NoDuplicateRows ==
    /\ NoDuplicates(Keys(players))
    /\ \A c \in Category : NoDuplicates(matches[c]) /\ NoDuplicates(player_matches[c])

\* a crawl that went through MaxFaults faults and restarts and stored every
\* player and every match
C3_Witness ==
    /\ pc = "idle" /\ status = "done" /\ faults = MaxFaults
    /\ PlayerIds(players) = Ids
    /\ Range(matches["swiftplay"]) \cup Range(matches["ranked"]) = MatchIdSet

\* C4: when _process_player fails for the dequeued id X, bfs puts X back at
\* the front of the queue, writes that queue (X, then the pending ids) as the
\* checkpoint, re-raises, and dequeues nothing more in that run.
C4_FailurePolicy ==
    [][ /\ (pc = "except" /\ pc' # "idle") =>
              /\ pc' = "except_save"
              /\ current_puuid = inflight
              /\ queue' = <<inflight>> \o queue
        /\ (pc = "except_save" /\ pc' # "idle") =>
              /\ pc' = "except_raise"
              /\ load_queue_state' = queue
              /\ queue' = queue
        /\ pc = "except_raise" =>
              /\ pc' = "idle"
              /\ status' = "error" => (load_queue_state' = queue /\ Head(queue) = inflight)
      ]_vars

\* a run ended by the re-raised error, with the failed id checkpointed in
\* front of an id that was pending
C4_Witness ==
    /\ pc = "idle" /\ status = "error"
    /\ Len(load_queue_state) >= 2
    /\ Head(load_queue_state) = inflight

\* C5: the checkpoint written on KeyboardInterrupt is the in-flight id (if an
\* id is dequeued and not finished) followed by the pending queue; a finished
\* id is not re-inserted, and an interrupt before the first dequeue still
\* writes the queue.
PendingQueue == IF pc \in {"except_save", "except_raise"} THEN Tail(queue) ELSE queue
InflightSeq == IF inflight = UNBOUND THEN <<>> ELSE <<inflight>>
C5_Cancellation ==
    [][ (status = "running" /\ status' \in {"interrupted", "unbound_error"})
            => load_queue_state' = InflightSeq \o PendingQueue ]_vars

\* C6: no id with a Players.csv row is in the persisted checkpoint.
C6_CompletedNotQueued ==
    \A i \in DOMAIN load_queue_state : load_queue_state[i] \notin PlayerIds(players)

\* C7: during a run, visited_puuids contains every queued id and every id
\* with a Players.csv row.
C7_VisitedInvariant ==
    Running => (Range(queue) \cup PlayerIds(players)) \subseteq visited_puuids

\* C8: every row of a category's match table has all the participant rows of
\* that match in the same category's participant table.
C8_ParticipantsBeforeSummary ==
    \A c \in Category : \A i \in DOMAIN matches[c] :
        \A k \in DOMAIN Participants(matches[c][i]) :
            <<matches[c][i], Participants(matches[c][i])[k]>> \in Range(player_matches[c])

\* the store left by a kill inside _process_matches, holding a match row and
\* the participant rows of a match whose summary row is still missing
C8_Witness ==
    /\ pc = "idle" /\ status = "crashed"
    /\ \E c \in Category :
          /\ matches[c] # <<>>
          /\ \E k \in DOMAIN player_matches[c] :
                player_matches[c][k][1] \notin Range(matches[c])

\* C27: no id occurs twice in the queue of the running process or in the
\* list stored in queue_state.json, in fresh and in resumed processes.
C27_QueueHasNoDuplicates ==
    /\ NoDuplicates(queue)
    /\ NoDuplicates(load_queue_state)

\* ------------------------------------------------------------------------
\* Properties of RateLimit (SpecRL)
\* ------------------------------------------------------------------------
\* number of recorded timestamps younger than the window at the clock value
\* of the last recording
Younger(window) ==
    Cardinality({i \in DOMAIN request_times_long : now - request_times_long[i] < window})

\* C9: when a call records its timestamp, at most requests_per_second recorded
\* timestamps are younger than 1 s and at most requests_per_2min younger
\* than 120 s.
C9_RateBudgetAtAdmission ==
    calls > 0 =>
        /\ Younger(ShortWindow) <= requests_per_second
        /\ Younger(LongWindow) <= requests_per_2min

\* entries of a window that are not older than the window at clock value t
Held(times, t, window) == {i \in DOMAIN times : t - times[i] <= window}

\* C23: a wait_if_needed call that finds requests_per_second or more
\* timestamps not older than 1 s in the short window records its own
\* timestamp no earlier than 1 s after the oldest of them; a call that finds
\* neither window full records the clock value it read on entry (no sleep).
C23_ShortWindowDelay ==
    [][calls' = calls + 1 =>
          LET t == entered_at'
              short == Held(request_times_short, t, ShortWindow)
              long == Held(request_times_long, t, LongWindow)
          IN /\ Cardinality(short) >= requests_per_second =>
                   \A i \in short :
                       (\A j \in short : request_times_short[i] <= request_times_short[j])
                           => now' >= request_times_short[i] + ShortWindow
             /\ (Cardinality(short) < requests_per_second
                   /\ Cardinality(long) < requests_per_2min) => now' = t]_vars
C23_Witness ==
    /\ calls = requests_per_second + 1
    /\ entered_at = 0
    /\ request_times_short[1] = 0
    /\ now = ShortWindow

\* ------------------------------------------------------------------------
\* Completion of bfs (SpecLive)
\* ------------------------------------------------------------------------
\* inside the try block of bfs, no exception being handled
InTry == pc \notin {"idle", "except", "except_save", "except_raise"}

\* C24: a process in which no API call fails and which is neither interrupted
\* nor killed leaves bfs by the end of its loop; it then has an empty queue,
\* queue_state.json holds the empty list, and every id the process had in its
\* queue (loaded or discovered) has a row in Players.csv.
C24_Completion ==
    /\ [](status = "done" =>
            /\ pc = "idle"
            /\ queue = <<>>
            /\ queue_state = json_dump(<<>>)
            /\ run_queued \subseteq PlayerIds(players))
    /\ \A n \in 0 .. MaxFaults :
          (InTry /\ faults = n) ~> (status = "done" \/ faults > n)
C24_Witness ==
    /\ status = "done"
    /\ faults = 0
    /\ run_queued = Ids
    /\ PlayerIds(players) = Ids

\* ------------------------------------------------------------------------
\* Properties of _make_request (SpecReq)
\* ------------------------------------------------------------------------
Count(seq, S) == Cardinality({i \in DOMAIN seq : seq[i] \in S})
\* responses counted as failed attempts
FailedStatuses == IF allow_404 THEN {"500", "error"} ELSE {"404", "500", "error"}

\* C10: a 429 takes none of the max_retries failed-attempt slots, so the call
\* gives up only after max_retries failed attempts, and a 429 causes one sleep
\* (the server's Retry-After) while a failed attempt causes one backoff sleep.
C10_RateLimitedIsFree ==
    /\ req_result = "raised" => Count(responses, FailedStatuses) = max_retries
    /\ Len(sleeps) = Count(responses, {"429"}) + Count(responses, FailedStatuses)

\* the current call has received only failed attempts so far
OnlyFailures == Count(responses, FailedStatuses) = Len(responses)

\* C11: a call whose attempts all fail sends exactly max_retries (3) HTTP
\* requests, never a 4th, and ends by raising to the caller; after fewer than
\* max_retries failures the call is still trying, and a 200 received then ends
\* it with the payload.
C11_RetryBudget ==
    /\ Len(sent) <= max_retries
    /\ (OnlyFailures /\ Len(responses) = max_retries)
           => (req_result = "raised" /\ req_pc = "idle" /\ Len(sent) = max_retries)
    /\ (OnlyFailures /\ Len(responses) < max_retries /\ endpoint # "none")
           => (req_result = "none" /\ req_pc = "attempt")
    /\ (responses # <<>> /\ responses[Len(responses)] = "200")
           => (req_result = "payload" /\ req_pc = "idle")
C11_Witness ==
    /\ req_result = "raised"
    /\ OnlyFailures
    /\ Len(sent) = max_retries

\* C12: a 404 answered to a call that passed allow_404 (get_champion_mastery
\* is the one that does) ends the call at once with None: no retry is counted,
\* nothing is slept and nothing is raised; a 404 answered to any other call is
\* counted as a failed attempt and followed by its backoff sleep.
C12_ExpectedAbsence ==
    [][(req_pc = "attempt" /\ responses' = Append(responses, "404")) =>
          /\ allow_404 = AllowsNotFound(endpoint)
          /\ IF allow_404
             THEN /\ req_result' = "null"
                  /\ req_pc' = "idle"
                  /\ retry_count' = retry_count
                  /\ sleeps' = sleeps
                  /\ now' = now
             ELSE /\ retry_count' = retry_count + 1
                  /\ req_result' \in {"none", "raised"}
                  /\ sleeps' = Append(sleeps, Pow2(retry_count'))]_vars
C12_Witness ==
    /\ endpoint = "get_champion_mastery"
    /\ responses = <<"500", "404">>
    /\ req_result = "null"
    /\ sleeps = <<2>>

\* C25: every HTTP request _make_request has sent, retries included, was
\* admitted by a wait_if_needed call of its own: its clock value is recorded
\* in both windows, once per request sent at that clock value.
C25_EveryAttemptAdmitted ==
    \A i \in DOMAIN sent :
        /\ Count(request_times_short, {sent[i]}) >= Count(sent, {sent[i]})
        /\ Count(request_times_long, {sent[i]}) >= Count(sent, {sent[i]})

\* ------------------------------------------------------------------------
\* Properties of main (Spec)
\* ------------------------------------------------------------------------
\* C17: a process ended by an error that reached main has a non-zero exit
\* status, and a process that ended because the queue ran empty has status 0.
C17_ExitStatus ==
    /\ (pc = "idle" /\ status \in {"error", "unbound_error"}) => exit_status # 0
    /\ (pc = "idle" /\ status = "done") => exit_status = 0

\* ------------------------------------------------------------------------
\* Properties of neighbor discovery (Spec)
\* ------------------------------------------------------------------------
\* C20: while a process runs, ids enter the queue in two ways only: the
\* failure and interrupt handlers put the current id back at the head, and
\* discovery appends at the tail. Discovery happens right after the match at
\* match_ids[idx] was fetched and saved in this step (it was not known to the
\* store when the loop reached it), only in the swiftplay pass, and appends
\* participants of that match that were not in visited_puuids, which are then
\* in visited_puuids. Known matches and ranked matches append nobody.
C20_DiscoveryScope ==
    [][/\ (pc # "idle" /\ Len(queue') > Len(queue)) =>
             \/ queue' = <<current_puuid>> \o queue
             \/ /\ pc = "teammates"
                /\ queue_type = "swiftplay"
                /\ SubSeq(queue', 1, Len(queue)) = queue
                /\ \A x \in Range(Appended(queue, queue')) :
                       /\ x \in Range(Participants(match_ids[idx]))
                       /\ x \notin visited_puuids
                       /\ x \in visited_puuids'
                /\ match_ids[idx] \in Range(matches[queue_type])
       /\ pc' = "teammates" => (pc = "save_match" /\ idx' = idx /\ match_ids' = match_ids)
       /\ pc' = "save_match" => (pc = "save_player_matches" /\ idx' = idx /\ match_ids' = match_ids)
       /\ pc' = "save_player_matches" =>
             /\ pc = "matches"
             /\ idx' = idx /\ match_ids' = match_ids
             /\ ~match_exists(match_ids[idx], queue_type)
       /\ (pc = "teammates" /\ queue_type = "ranked" /\ pc' = "matches") => queue' = queue
       /\ (pc = "matches" /\ pc' = "matches") => queue' = queue
      ]_vars
C20_Witness ==
    /\ pc = "matches"
    /\ current_puuid = "P1"
    /\ queue_type = "swiftplay"
    /\ idx = 2
    /\ queue = <<"P2", "P3">>
    /\ visited_puuids = {"P1", "P2", "P3"}

\* a step of neighbor discovery that appended somebody
Discovery == pc = "teammates" /\ pc' = "matches" /\ Len(queue') > Len(queue)

\* C21: discovery appends an id only while the queue is shorter than the
\* ceiling, so a discovery step never leaves the queue longer than the ceiling.
C21_BacklogCeiling ==
    [][Discovery => (Len(queue) < QueueCeiling /\ Len(queue') <= QueueCeiling)]_vars

\* C22: once add_to_queue is False in a run it stays False until the run
\* ends, and from then on no discovery step appends anybody, whatever the
\* length of the queue.
C22_SuspensionIsPermanent ==
    [][(pc # "idle" /\ pc' # "idle" /\ ~add_to_queue) => (~add_to_queue' /\ ~Discovery)]_vars
C22_Witness ==
    /\ ~add_to_queue
    /\ pc = "teammates"
    /\ queue_type = "swiftplay"
    /\ Len(queue) <= QueueCeiling
    /\ NewTeammates(match_ids[idx], visited_puuids) # <<>>

\* ------------------------------------------------------------------------
\* Properties of seeding (SpecSeed)
\* ------------------------------------------------------------------------
\* _sample_from_division fetches at most max_attempts pages, and returns
\* without a bfs only after max_attempts pages; the id it starts bfs from is
\* not in visited_puuids and has matches in both categories.
SeedingWithinBudget ==
    /\ [](pages_fetched <= max_attempts)
    /\ []((seed_pc = "returned" /\ bfs_seed = UNBOUND) => pages_fetched = max_attempts)
    /\ [][(seed_pc = "sampling" /\ bfs_seed' # UNBOUND)
             => (bfs_seed' \notin visited_puuids /\ ValidSeed(bfs_seed'))]_vars

\* C18: _sample_from_division starts bfs only from an id that is not already
\* known (neither visited by the process nor stored with a player row) and
\* that has a match in both categories; it fetches at most max_attempts (5)
\* pages, and it returns without a bfs only when those pages held no such id.
C18_Seeding ==
    /\ [](pages_fetched <= max_attempts)
    /\ []((seed_pc = "returned" /\ bfs_seed = UNBOUND) => pages_fetched = max_attempts)
    /\ [][(seed_pc = "sampling" /\ bfs_seed' # UNBOUND) =>
             /\ bfs_seed' \notin visited_puuids
             /\ ~player_exists(bfs_seed')
             /\ ValidSeed(bfs_seed')]_vars

\* ------------------------------------------------------------------------
\* Properties of _aggregate_player_data (SpecAgg)
\* ------------------------------------------------------------------------
RECURSIVE Total(_, _, _)
Total(data, field, n) == IF n = 0 THEN 0 ELSE Total(data, field, n - 1) + data[n][field]
Wins(data) == Cardinality({i \in DOMAIN data : data[i].win})
\* the float v is the quotient n / d
IsQuotient(v, n, d) == Len(v) = 2 /\ v[2] # 0 /\ v[1] * d = n * v[2]
RankedValues ==
    {agg_player_data.ranked_kills, agg_player_data.ranked_deaths, agg_player_data.ranked_assists,
     agg_player_data.ranked_kd, agg_player_data.ranked_ad, agg_player_data.ranked_kda,
     agg_player_data.ranked_kad, agg_player_data.ranked_win_loss_ratio}

\* C19: the returned kills, deaths and assists of a category are the sums over
\* its rows, kill/death is kills / max(1, deaths) (N kills without a death
\* give N), win/loss is wins / max(1, games - wins), and the ranked fields are
\* all None when there is no ranked row and none of them is None otherwise.
C19_Aggregation ==
    aggregated =>
        LET sw == agg_swiftplay_data
            rk == agg_ranked_data
            kills(d) == Total(d, "kills", Len(d))
            deaths(d) == Total(d, "deaths", Len(d))
            assists(d) == Total(d, "assists", Len(d))
        IN /\ agg_player_data.swiftplay_kills = IntValue(kills(sw))
           /\ agg_player_data.swiftplay_deaths = IntValue(deaths(sw))
           /\ agg_player_data.swiftplay_assists = IntValue(assists(sw))
           /\ IsQuotient(agg_player_data.swiftplay_kd, kills(sw), Max(1, deaths(sw)))
           /\ deaths(sw) = 0 => IsQuotient(agg_player_data.swiftplay_kd, kills(sw), 1)
           /\ IsQuotient(agg_player_data.swiftplay_win_loss_ratio, Wins(sw),
                         Max(1, Len(sw) - Wins(sw)))
           /\ IF rk = <<>>
              THEN RankedValues = {Null}
              ELSE /\ Null \notin RankedValues
                   /\ agg_player_data.ranked_kills = IntValue(kills(rk))
                   /\ agg_player_data.ranked_deaths = IntValue(deaths(rk))
                   /\ agg_player_data.ranked_assists = IntValue(assists(rk))
                   /\ IsQuotient(agg_player_data.ranked_kd, kills(rk), Max(1, deaths(rk)))
                   /\ deaths(rk) = 0 => IsQuotient(agg_player_data.ranked_kd, kills(rk), 1)
                   /\ IsQuotient(agg_player_data.ranked_win_loss_ratio, Wins(rk),
                                 Max(1, Len(rk) - Wins(rk)))
C19_Witness ==
    /\ aggregated
    /\ Len(agg_swiftplay_data) = MaxMatches
    /\ agg_ranked_data = <<>>
    /\ agg_player_data.swiftplay_deaths = IntValue(0)
    /\ agg_player_data.swiftplay_kd = Ratio(MaxMatches * MaxStat, 1)
    /\ agg_player_data.ranked_kd = Null

\* ------------------------------------------------------------------------
\* Properties of DataManager (SpecStore)
\* ------------------------------------------------------------------------
\* C13: a save_player_matches call with a batch of pairwise distinct
\* (matchId, puuid) keys keeps the stored rows, appends exactly the rows of the
\* batch whose key was not stored, and a second call with the same batch
\* leaves the table as the first call left it.
C13_SavePlayerMatchesIdempotent ==
    [][(/\ dm_calls' = dm_calls + 1
        /\ last_call'.op = "save_player_matches"
        /\ NoDuplicates(last_call'.arg)) =>
          LET rows == last_call'.arg
              c == last_call'.category
              before == player_matches[c]
              once == player_matches'[c]
          IN /\ save_player_matches(rows, once) = once
             /\ Len(once) >= Len(before)
             /\ SubSeq(once, 1, Len(before)) = before
             /\ Range(Appended(before, once)) = Range(rows) \ Range(before)
             /\ Len(Appended(before, once)) = Cardinality(Range(rows) \ Range(before))
             /\ \A d \in Category \ {c} : player_matches'[d] = player_matches[d]
             /\ (last_call.op = "save_player_matches" /\ last_call.arg = rows
                    /\ last_call.category = c) => once = before]_vars
C13_Witness ==
    /\ last_call.op = "save_player_matches"
    /\ last_call.arg = << <<"M1", "P1">>, <<"M1", "P2">> >>
    /\ player_matches[last_call.category] = << <<"M1", "P2">>, <<"M1", "P1">> >>

\* C14: whatever save_match, save_player and save_player_matches calls were
\* made, no table holds two rows with the same natural key.
C14_StoreLevelDedup ==
    /\ NoDuplicates(Keys(players))
    /\ \A c \in Category : NoDuplicates(matches[c]) /\ NoDuplicates(player_matches[c])

\* C15: a match saved under a category is reported by match_exists for that
\* category and a saved player by player_exists, by the DataManager that saved
\* them and by every DataManager constructed later over the same files.
C15_ExistsAfterSave ==
    /\ \A c \in Category : \A i \in DOMAIN matches[c] : match_exists(matches[c][i], c)
    /\ \A i \in DOMAIN players : player_exists(players[i].puuid)
    /\ (last_call.op = "match_exists" /\ last_call.arg \in Range(matches[last_call.category]))
           => last_call.result = TRUE
    /\ (last_call.op = "player_exists" /\ last_call.arg \in PlayerIds(players))
           => last_call.result = TRUE
C15_Witness ==
    /\ restarted
    /\ last_call = Call("match_exists", "M2", "ranked", TRUE)
    /\ matches["ranked"] = <<"M2">>
    /\ players # <<>>

\* C26: match_exists(id, c) returns True only if a row with that id is in the
\* match table of category c itself; a match saved only under the other
\* category is not reported for c.
C26_CategoryIsolation ==
    (last_call.op = "match_exists" /\ last_call.result = TRUE)
        => last_call.arg \in Range(matches[last_call.category])

\* C16: load_queue_state returns the queue of the last save_queue_state call,
\* in the same order, whatever was saved before it; the file is changed by
\* save_queue_state only.
C16_CheckpointRoundTrip ==
    /\ [](last_call.op = "save_queue_state" => load_queue_state = last_call.arg)
    /\ [](\A q \in SeqsOf(StorePlayers) : json_load(save_queue_state(q, queue_state)) = q)
    /\ [][(last_call'.op = "load_queue_state" /\ last_call.op = "save_queue_state")
             => last_call'.result = last_call.arg]_vars
    /\ [][queue_state' # queue_state => last_call'.op = "save_queue_state"]_vars
C16_Witness ==
    /\ last_call = Call("load_queue_state", "none", "none", <<"P2", "P1">>)
    /\ dm_calls = MaxSaves

TypeOK ==
    /\ pc \in {"idle", "loop", "assign", "save_queue", "process_player", "matches",
               "save_player_matches", "save_match", "teammates", "save_player",
               "except", "except_save", "except_raise"}
    /\ visited_puuids \subseteq Ids
    /\ Range(queue) \subseteq Ids
    /\ Range(load_queue_state) \subseteq Ids
    /\ faults \in 0 .. MaxFaults
====
